---------------------------- MODULE Spec2Model ----------------------------
(***************************************************************************)
(* A model of the world storage and generation engine of w8:               *)
(*   src/src/map.rs    coordinate codec, Map (modified / generated grids), *)
(*                     terrain generation, persistence                     *)
(*   src/src/chunk.rs  Chunk (growable 3-d array of Option<Tile>), rows    *)
(*   src/src/tile.rs   Tile                                                *)
(*   src/src/image.rs  image ids                                           *)
(*   src/src/main.rs   process start-up (load), counter reset, save        *)
(*                                                                         *)
(* Representation.                                                         *)
(*  - i32 values are integers in [I32_MIN, I32_MAX]; i32 arithmetic that   *)
(*    can overflow is written with Add32/Sub32/Neg32 (two's complement     *)
(*    wrap-around, what a build without overflow checks computes) together *)
(*    with a predicate ...Ovf telling that the exact result does not fit   *)
(*    (a build with overflow checks panics there).  The variable `checked` *)
(*    says which of the two builds runs: it is chosen in Init and never    *)
(*    changes.                                                             *)
(*  - usize (64 bit) values are written in two's complement as well: an    *)
(*    integer n >= 0 is the index n, an integer n < 0 is the index         *)
(*    2^64 + n (what `v as usize` yields for a negative i32 or i64 v).     *)
(*  - Vec<T> is a record [len, at]: `len` is the length, `at` maps the     *)
(*    indices that hold a value other than the one push() filled in        *)
(*    (vec![], None, Chunk::new()) to that value.                          *)
(*  - f32 noise values are fixed-point integers, in units of 1/10000.      *)
(***************************************************************************)
EXTENDS Integers, Sequences, FiniteSets, TLC

VARIABLES
    checked,      \* TRUE: the build panics on integer overflow; FALSE: it wraps
    cin,          \* codec / tile specifications: the input of the call
    cout,         \* codec / tile specifications: the outcome of the call
    map,          \* the process's Map (map.rs:146-154)
    db,           \* the table "generated_map" of the table store
    map_modified, \* main.rs:92: an edit has not been saved yet
    crashed,      \* the process has panicked
    hist          \* history of the calls made (for stating the properties)

vars == <<checked, cin, cout, map, db, map_modified, crashed, hist>>

--------------------------------------------------------------------------
(* 32-bit and 16-bit machine arithmetic *)

I32_MAX == 2147483647
I32_MIN == -I32_MAX - 1

\* a + b overflows i32
Add32Ovf(a, b) ==
    \/ b > 0 /\ a > I32_MAX - b
    \/ b < 0 /\ a < I32_MIN - b

\* a + b in wrapping i32 arithmetic (no intermediate value leaves 32 bits)
Add32(a, b) ==
    IF b > 0 /\ a > I32_MAX - b THEN ((a + I32_MIN) + b) + I32_MIN
    ELSE IF b < 0 /\ a < I32_MIN - b THEN (((a - I32_MIN) + b) + I32_MAX) + 1
    ELSE a + b

\* a - b overflows i32 (b is never I32_MIN in the code modelled)
Sub32Ovf(a, b) == Add32Ovf(a, -b)

Sub32(a, b) == Add32(a, -b)

Neg32Ovf(a) == a = I32_MIN

Neg32(a) == IF a = I32_MIN THEN I32_MIN ELSE -a

\* Rust's `/` and `%` on i32 truncate toward zero; b > 0 here
TruncDiv(a, b) ==
    IF a >= 0 \/ a % b = 0 THEN a \div b ELSE (a \div b) + 1

TruncRem(a, b) == a - b * TruncDiv(a, b)

\* `v as i16` of an integer: the low 16 bits, two's complement
Wrap16(v) == ((v + 32768) % 65536) - 32768

\* the exact value does not fit i16
Ovf16(v) == v < -32768 \/ v > 32767

\* `v as u16` of an integer
AsU16(v) == v % 65536

\* `v as usize` of a signed integer: sign extension.  In the two's
\* complement reading of usize used here the number itself is kept; a
\* negative one stands for 2^64 + v.
AsUsize(v) == v

\* an index no Vec can be grown to (2^63 or more elements)
IsHuge(u) == u < 0

--------------------------------------------------------------------------
(* chunk.rs:14-16 *)
chunksize == 16

--------------------------------------------------------------------------
(* map.rs:22-47: the coordinate codec *)

i_to_u_Ovf(idx) ==
    IF idx < 0
    THEN \/ Add32Ovf(idx, idx)
         \/ Neg32Ovf(Add32(idx, idx))
         \/ Sub32Ovf(Neg32(Add32(idx, idx)), 1)
    ELSE Add32Ovf(idx, idx)

i_to_u(idx) ==
    IF idx < 0
    THEN AsUsize(Sub32(Neg32(Add32(idx, idx)), 1))
    ELSE AsUsize(Add32(idx, idx))

\* idx / 2 of a usize 2^64 + n (n < 0) is 2^63 + floor(n / 2), whose low 32
\* bits (`as i32`) are floor(n / 2); \div is floor division.
u_to_i(idx) ==
    IF idx % 2 = 0
    THEN idx \div 2
    ELSE -((idx \div 2) + 1)

chunkify_Ovf(i) ==
    IF i < 0
    THEN \/ Sub32Ovf(i, chunksize)
         \/ Add32Ovf(Sub32(i, chunksize), 1)
         \/ i_to_u_Ovf(TruncDiv(Add32(Sub32(i, chunksize), 1), chunksize))
    ELSE i_to_u_Ovf(TruncDiv(i, chunksize))

\* <<chunk index, local offset>>
chunkify(i) ==
    LET chunk == IF i < 0
                 THEN TruncDiv(Add32(Sub32(i, chunksize), 1), chunksize)
                 ELSE TruncDiv(i, chunksize)
        rest  == IF i < 0
                 THEN TruncRem(i + 1, chunksize) + chunksize - 1
                 ELSE TruncRem(i, chunksize)
    IN  <<i_to_u(chunk), AsUsize(rest)>>

--------------------------------------------------------------------------
(* image.rs:2-21: image ids, from_grid!(x, y) = x + y * IMAGES_X *)

IMAGES_X == 16
from_grid(x, y) == x + y * IMAGES_X

STONE  == from_grid(3, 0)
IRON   == from_grid(2, 0)
COPPER == from_grid(4, 1)
GOLD   == from_grid(4, 0)
GRASS  == from_grid(0, 0)
DIRT   == from_grid(3, 2)
WATER  == from_grid(3, 1)

\* map.rs:7-8 imports these four from image.rs; the image.rs at hand does
\* not define them.  Four distinct foliage sprites, none of them a
\* background id.
PINE_1_1      == from_grid(0, 5)
OAK_1_1       == from_grid(1, 5)
OAK_1_1_RED   == from_grid(2, 5)
OAK_1_1_SMALL == from_grid(3, 5)

\* Option<ImageId>::None; Some(id) is the id itself (0 .. 65535)
NoImage == -1

\* tile.rs:2-5; Option<Tile>: None is NoTile, Some(t) is SomeTile(t)
Tile(bg, fg) == [bg |-> bg, fg |-> fg]
NoTile == [some |-> FALSE, bg |-> NoImage, fg |-> NoImage]
SomeTile(t) == [some |-> TRUE, bg |-> t.bg, fg |-> t.fg]
TileOf(o) == Tile(o.bg, o.fg)

--------------------------------------------------------------------------
(* map.rs:300-347: one tile of a generated chunk, from the six normalized *)
(* noise values at its place and its z level                              *)

\* map.rs:300-309: `chooser` overwrites ore_kind; the last call that
\* finds a negative value wins
MutChooserGoldFirst(iron_ore_depth, copper_ore_depth, gold_ore_depth) ==
    IF gold_ore_depth < 0 THEN GOLD
    ELSE IF copper_ore_depth < 0 THEN COPPER
    ELSE IF iron_ore_depth < 0 THEN IRON
    ELSE STONE

ore_kind_of(iron_ore_depth, copper_ore_depth, gold_ore_depth) ==
    LET k0 == STONE
        k1 == IF copper_ore_depth < 0 THEN COPPER ELSE k0
        k2 == IF gold_ore_depth < 0 THEN GOLD ELSE k1
        k3 == IF iron_ore_depth < 0 THEN IRON ELSE k2
    IN  k3

\* map.rs:318: z_level - terrain_height in i16
distance_of(z_level, terrain_height) == Wrap16(z_level - terrain_height)

\* map.rs:319-335
bg_of(z_level, terrain_height, soil_thickness, ore_kind) ==
    LET distance == distance_of(z_level, terrain_height)
    IN  IF distance > 0
        THEN IF terrain_height <= 0 /\ z_level <= 0 THEN WATER ELSE NoImage
        ELSE IF distance = 0
        THEN IF terrain_height >= 0 THEN GRASS ELSE DIRT
        ELSE IF distance < 0 /\ distance >= Wrap16(-soil_thickness)
        THEN DIRT
        ELSE ore_kind

\* map.rs:336-346
MutFgOakAt24(bg, vegetation) ==
    IF bg = GRASS
    THEN IF vegetation >= 0 /\ vegetation <= 23 THEN PINE_1_1
         ELSE IF vegetation = 24 \/ vegetation = 25 THEN OAK_1_1
         ELSE IF vegetation = 26 THEN OAK_1_1_RED
         ELSE IF vegetation = 27 THEN OAK_1_1_SMALL
         ELSE NoImage
    ELSE NoImage

fg_of(bg, vegetation) ==
    IF bg = GRASS
    THEN IF vegetation >= 0 /\ vegetation <= 24 THEN PINE_1_1
         ELSE IF vegetation = 25 THEN OAK_1_1
         ELSE IF vegetation = 26 THEN OAK_1_1_RED
         ELSE IF vegetation = 27 THEN OAK_1_1_SMALL
         ELSE NoImage
    ELSE NoImage

\* map.rs:291-347: the loop body.  n = the six values and the z level.
gen_tile(n) ==
    LET ore_kind == ore_kind_of(n.iron, n.copper, n.gold)
        bg == bg_of(n.z_level, n.terrain_height, n.soil_thickness, ore_kind)
        fg == fg_of(bg, n.vegetation)
    IN  [ore_kind |-> ore_kind, tile |-> Tile(bg, fg)]

\* map.rs:318 and 332: `z_level - terrain_height` and `-soil_thickness` are
\* i16 operations; the negation is reached only below the surface
gen_tile_Ovf(n) ==
    \/ Ovf16(n.z_level - n.terrain_height)
    \/ /\ distance_of(n.z_level, n.terrain_height) < 0
       /\ Ovf16(-n.soil_thickness)

--------------------------------------------------------------------------
(* Vec<T>: [len, at]; an index below len that `at` does not hold has the  *)
(* value push() filled in, which the reader passes as `dflt`              *)

EmptyVec == [len |-> 0, at |-> [i \in {} |-> 0]]

VAt(v, i, dflt) == IF i \in DOMAIN v.at THEN v.at[i] ELSE dflt

\* while v.len() < n { v.push(dflt) }
VGrow(v, n) == IF v.len < n THEN [v EXCEPT !.len = n] ELSE v

\* v[i] = x, for i < v.len
VPut(v, i, x) == [v EXCEPT !.at = (i :> x) @@ v.at]

\* i < v.len() for a usize i
VHas(v, i) == ~IsHuge(i) /\ i < v.len

--------------------------------------------------------------------------
(* chunk.rs:9-44: Chunk *)

Chunk_new == [tiles |-> EmptyVec]

Chunk_has_data(c) == c.tiles.len # 0

Chunk_get(c, x, y, z) ==
    IF /\ VHas(c.tiles, z)
       /\ VHas(VAt(c.tiles, z, EmptyVec), y)
       /\ VHas(VAt(VAt(c.tiles, z, EmptyVec), y, EmptyVec), x)
    THEN VAt(VAt(VAt(c.tiles, z, EmptyVec), y, EmptyVec), x, NoTile)
    ELSE NoTile

\* the explicit tiles of one chunk: <<x, y, z, tile>> for every Some(tile)
chunk_explicit(c) ==
    UNION {UNION {{<<x, y, z, TileOf(c.tiles.at[z].at[y].at[x])>> :
                     x \in {i \in DOMAIN c.tiles.at[z].at[y].at :
                                c.tiles.at[z].at[y].at[i].some}} :
                  y \in DOMAIN c.tiles.at[z].at} :
           z \in DOMAIN c.tiles.at}

\* the loops of expand never end (until memory is exhausted) for an index
\* of 2^63 or more
Chunk_expand_fails(x, y, z) == IsHuge(x) \/ IsHuge(y) \/ IsHuge(z)

\* arrays cut to the lengths the call asks for
MutExpandTruncate(c, x, y, z) ==
    LET tz == [c.tiles EXCEPT !.len = z + 1]
        ty == [VAt(tz, z, EmptyVec) EXCEPT !.len = y + 1]
        tx == [VAt(ty, y, EmptyVec) EXCEPT !.len = x + 1]
    IN  [tiles |-> VPut(tz, z, VPut(ty, y, tx))]

Chunk_expand(c, x, y, z) ==
    LET tz == VGrow(c.tiles, z + 1)
        ty == VGrow(VAt(tz, z, EmptyVec), y + 1)
        tx == VGrow(VAt(ty, y, EmptyVec), x + 1)
    IN  [tiles |-> VPut(tz, z, VPut(ty, y, tx))]

\* chunk.rs:30-33
MutSetFreshLine(c, x, y, z, tile) ==
    LET e  == Chunk_expand(c, x, y, z)
        ty == VAt(e.tiles, z, EmptyVec)
    IN  [tiles |-> VPut(e.tiles, z,
                        VPut(ty, y, VPut(VGrow(EmptyVec, x + 1), x, SomeTile(tile))))]

Chunk_set(c, x, y, z, tile) ==
    LET e  == Chunk_expand(c, x, y, z)
        ty == VAt(e.tiles, z, EmptyVec)
        tx == VAt(ty, y, EmptyVec)
    IN  [tiles |-> VPut(e.tiles, z, VPut(ty, y, VPut(tx, x, SomeTile(tile))))]

--------------------------------------------------------------------------
(* map.rs:49-140: the noise layers; f32 values in units of 1/10000 *)

NOISE_2_OCTAVES_MIN == -911
NOISE_2_OCTAVES_MAX == 911
NOISE_5_OCTAVES_MIN == -6600
NOISE_5_OCTAVES_MAX == 6600

NOISE_TERRAIN_HEIGHT ==
    [id |-> 0, seed |-> 1, frequency |-> 400, octaves |-> 5, lacunarity |-> 4000,
     noise_min |-> NOISE_5_OCTAVES_MIN, noise_max |-> NOISE_5_OCTAVES_MAX,
     min_value |-> -8, max_value |-> 16]

NOISE_SOIL_THICKNESS ==
    [id |-> 1, seed |-> 0, frequency |-> 200, octaves |-> 2, lacunarity |-> 4000,
     noise_min |-> NOISE_2_OCTAVES_MIN, noise_max |-> NOISE_2_OCTAVES_MAX,
     min_value |-> 1, max_value |-> 5]

NOISE_VEGETATION ==
    [id |-> 2, seed |-> 2, frequency |-> 600, octaves |-> 2, lacunarity |-> 4000,
     noise_min |-> NOISE_2_OCTAVES_MIN, noise_max |-> NOISE_2_OCTAVES_MAX,
     min_value |-> 0, max_value |-> 50]

NOISE_IRON_ORE ==
    [id |-> 0, seed |-> 3, frequency |-> 600, octaves |-> 2, lacunarity |-> 4000,
     noise_min |-> NOISE_2_OCTAVES_MIN, noise_max |-> NOISE_2_OCTAVES_MAX,
     min_value |-> -6, max_value |-> 20]

NOISE_COPPER_ORE ==
    [id |-> 1, seed |-> 4, frequency |-> 600, octaves |-> 2, lacunarity |-> 4000,
     noise_min |-> NOISE_2_OCTAVES_MIN, noise_max |-> NOISE_2_OCTAVES_MAX,
     min_value |-> -6, max_value |-> 20]

NOISE_GOLD_ORE ==
    [id |-> 2, seed |-> 5, frequency |-> 1600, octaves |-> 2, lacunarity |-> 4000,
     noise_min |-> NOISE_2_OCTAVES_MIN, noise_max |-> NOISE_2_OCTAVES_MAX,
     min_value |-> -6, max_value |-> 50]

\* map.rs:207 and map.rs:246: the arrays the two loops enumerate; the
\* position in the array is the `id` of those loops
Layers2D == <<NOISE_TERRAIN_HEIGHT, NOISE_SOIL_THICKNESS, NOISE_VEGETATION>>
Layers3D == <<NOISE_IRON_ORE, NOISE_COPPER_ORE, NOISE_GOLD_ORE>>

--------------------------------------------------------------------------
(* simdnoise (an external crate): fbm_2d_offset / fbm_3d_offset .generate() *)
(* A deterministic field: the value at a point is a fixed function of the  *)
(* layer's parameters and of the point.  The field below is one such       *)
(* function; its amplitude differs from chunk to chunk and exceeds the     *)
(* layer's expected range in some chunks, as the code provides for.        *)

\* a number in 0 .. 20 for the point (wx, wy, wz) of layer `meta`
fbm_cell(meta, wx, wy, wz) ==
    ((wx % 7) * 3 + (wy % 5) * 4 + (wz % 11) * 5 + meta.seed * 6
        + meta.frequency \div 200) % 21

\* the largest absolute value the layer takes in the chunk at (ox, oy, oz)
fbm_amplitude(meta, ox, oy, oz) ==
    IF meta.octaves = 5
    THEN NOISE_5_OCTAVES_MAX
    ELSE NOISE_2_OCTAVES_MAX - 40
         + 40 * ((meta.seed + (ox \div chunksize) + 2 * (oy \div chunksize)
                  + 3 * (oz \div chunksize)) % 4)

\* the raw value at offset (x, y, z) of the window anchored at (ox, oy, oz).
\* The code hands the anchor over as f32 (`as f32`, which rounds anchors
\* beyond 2^24); the field is a function of the i32 anchor all the same.
fbm_raw(meta, ox, oy, oz, x, y, z) ==
    ((fbm_cell(meta, (ox % 7) + x, (oy % 5) + y, (oz % 11) + z) - 10)
        * fbm_amplitude(meta, ox, oy, oz)) \div 10

\* the smallest / greatest of a non-empty finite set of integers
SetMin(S) == CHOOSE m \in S : \A v \in S : m <= v
SetMax(S) == CHOOSE m \in S : \A v \in S : m >= v

\* map.rs:212-222: (data, min, max) of a 2-d layer over the chunk's
\* footprint; data[x + y * chunksize]
fbm_2d(meta, ox, oy) ==
    LET data == [i \in 0 .. chunksize * chunksize - 1 |->
                    fbm_raw(meta, ox, oy, 0, i % chunksize, i \div chunksize, 0)]
        vals == {data[i] : i \in DOMAIN data}
    IN  [data |-> data, min |-> SetMin(vals), max |-> SetMax(vals)]

\* map.rs:251-263: the same for a 3-d layer;
\* data[x + y * chunksize + z * chunksize * chunksize]
fbm_3d(meta, ox, oy, oz) ==
    LET data == [i \in 0 .. chunksize * chunksize * chunksize - 1 |->
                    fbm_raw(meta, ox, oy, oz, i % chunksize,
                            (i \div chunksize) % chunksize,
                            i \div (chunksize * chunksize))]
        vals == {data[i] : i \in DOMAIN data}
    IN  [data |-> data, min |-> SetMin(vals), max |-> SetMax(vals)]

\* `v as i16` of a float: truncated toward zero (done by the caller), then
\* saturated
Sat16(v) == IF v > 32767 THEN 32767 ELSE IF v < -32768 THEN -32768 ELSE v

\* map.rs:234-237 and 275-278: the rescaling of one raw value, with the
\* bounds lo, hi.  In exact arithmetic
\*   (x - lo) / (hi - lo) * (max_value - min_value) + min_value
\*     = ((x - lo) * (max_value - min_value) + min_value * (hi - lo)) / (hi - lo)
rescale(meta, lo, hi, x) ==
    Sat16(TruncDiv((x - lo) * (meta.max_value - meta.min_value)
                    + meta.min_value * (hi - lo), hi - lo))

--------------------------------------------------------------------------
(* map.rs:146-166: Map *)

Map_new ==
    [chunks_modified  |-> EmptyVec,
     chunks_generated |-> EmptyVec,
     noise_min        |-> NOISE_2_OCTAVES_MIN,
     noise_max        |-> NOISE_2_OCTAVES_MAX,
     iron_ore_count   |-> 0,
     copper_ore_count |-> 0,
     gold_ore_count   |-> 0]

\* grid[chunk_z][chunk_y][chunk_x] of a Vec<Vec<Vec<Chunk>>>
grid_chunk(grid, chunk_x, chunk_y, chunk_z) ==
    VAt(VAt(VAt(grid, chunk_z, EmptyVec), chunk_y, EmptyVec), chunk_x, Chunk_new)

\* chunk_z < grid.len() && chunk_y < grid[chunk_z].len()
\*   && chunk_x < grid[chunk_z][chunk_y].len()     (map.rs:171-173)
grid_has(grid, chunk_x, chunk_y, chunk_z) ==
    /\ VHas(grid, chunk_z)
    /\ VHas(VAt(grid, chunk_z, EmptyVec), chunk_y)
    /\ VHas(VAt(VAt(grid, chunk_z, EmptyVec), chunk_y, EmptyVec), chunk_x)

\* the three while loops of get_chunk_modified_mut / get_chunk_generated_mut
grid_grow(grid, chunk_x, chunk_y, chunk_z) ==
    LET gz == VGrow(grid, chunk_z + 1)
        gy == VGrow(VAt(gz, chunk_z, EmptyVec), chunk_y + 1)
        gx == VGrow(VAt(gy, chunk_y, EmptyVec), chunk_x + 1)
    IN  VPut(gz, chunk_z, VPut(gy, chunk_y, gx))

\* *get_chunk_..._mut(chunk_x, chunk_y, chunk_z) = chunk, on a grown grid
grid_put(grid, chunk_x, chunk_y, chunk_z, chunk) ==
    LET gy == VAt(grid, chunk_z, EmptyVec)
        gx == VAt(gy, chunk_y, EmptyVec)
    IN  IF chunk = Chunk_new
        THEN grid
        ELSE VPut(grid, chunk_z, VPut(gy, chunk_y, VPut(gx, chunk_x, chunk)))

\* the loops never end (until memory is exhausted) for an index >= 2^63
grid_grow_fails(chunk_x, chunk_y, chunk_z) ==
    IsHuge(chunk_x) \/ IsHuge(chunk_y) \/ IsHuge(chunk_z)

\* map.rs:381-397
MutGrowBothGrids(m, chunk_x, chunk_y, chunk_z) ==
    [m EXCEPT !.chunks_modified = grid_grow(@, chunk_x, chunk_y, chunk_z),
              !.chunks_generated = grid_grow(@, chunk_x, chunk_y, chunk_z)]

get_chunk_modified_mut(m, chunk_x, chunk_y, chunk_z) ==
    [m EXCEPT !.chunks_modified = grid_grow(@, chunk_x, chunk_y, chunk_z)]

\* map.rs:399-415
get_chunk_generated_mut(m, chunk_x, chunk_y, chunk_z) ==
    [m EXCEPT !.chunks_generated = grid_grow(@, chunk_x, chunk_y, chunk_z)]

--------------------------------------------------------------------------
(* map.rs:196-356: generate_noise *)

\* noise bounds that follow the (min, max) of the last layer that widens
MutWidenToLayer(b, id, meta, r) ==
    [min |-> IF id > 0 THEN r.min ELSE b.min,
     max |-> IF id > 0 THEN r.max ELSE b.max]

\* map.rs:223-230 and 264-271: the widening of the Map's noise bounds by
\* the (min, max) of one layer; id is the layer's position in its loop
widen(b, id, meta, r) ==
    [min |-> IF r.min < meta.noise_min /\ id > 0 /\ r.min < b.min
             THEN (IF r.min < b.min THEN r.min ELSE b.min) ELSE b.min,
     max |-> IF r.max > meta.noise_max /\ id > 0 /\ r.max > b.max
             THEN (IF r.max > b.max THEN r.max ELSE b.max) ELSE b.max]

\* map.rs:234-235 and 275-276: the bounds a layer's values are rescaled with
norm_bounds(m, meta) == [lo |-> meta.noise_min, hi |-> meta.noise_max]

\* the six layers in the order generate_noise computes them, and the `id`
\* each has in its loop (enumerate() of map.rs:207-209 and 246-248)
NoiseLayers == Layers2D \o Layers3D

loop_id(k) == IF k <= Len(Layers2D) THEN k - 1 ELSE k - Len(Layers2D) - 1

\* map.rs:317: u_to_i(chunk_z) as i16 * chunksize as i16 + z as i16
z_level_Ovf(chunk_z, z) ==
    \/ Ovf16(Wrap16(u_to_i(chunk_z)) * chunksize)
    \/ Ovf16(Wrap16(Wrap16(u_to_i(chunk_z)) * chunksize) + z)

z_level_of(chunk_z, z) ==
    Wrap16(Wrap16(Wrap16(u_to_i(chunk_z)) * chunksize) + z)

\* map.rs:20-22 as used at map.rs:198-202
MutHasDataNever(c) == FALSE

has_data_of(c) == Chunk_has_data(c)

\* map.rs:203-355: the body of `if !has_data`, as a function of what it
\* reads: the Map's noise bounds and the chunk's indices.  The result holds
\* the noise bounds it leaves, the numbers it adds to the ore counters, the
\* chunk it stores and whether one of its i16 operations overflows.
generate_body(noise_min, noise_max, chunk_x, chunk_y, chunk_z) ==
    LET ox == u_to_i(chunk_x) * chunksize
        oy == u_to_i(chunk_y) * chunksize
        oz == u_to_i(chunk_z) * chunksize
        \* the layers in the order of the two loops (Layers2D, Layers3D)
        raw_terrain == fbm_2d(Layers2D[1], ox, oy)
        raw_soil    == fbm_2d(Layers2D[2], ox, oy)
        raw_veg     == fbm_2d(Layers2D[3], ox, oy)
        raw_iron    == fbm_3d(Layers3D[1], ox, oy, oz)
        raw_copper  == fbm_3d(Layers3D[2], ox, oy, oz)
        raw_gold    == fbm_3d(Layers3D[3], ox, oy, oz)
        b0 == [min |-> noise_min, max |-> noise_max]
        b1 == widen(b0, 0, Layers2D[1], raw_terrain)
        b2 == widen(b1, 1, Layers2D[2], raw_soil)
        b3 == widen(b2, 2, Layers2D[3], raw_veg)
        b4 == widen(b3, 0, Layers3D[1], raw_iron)
        b5 == widen(b4, 1, Layers3D[2], raw_copper)
        b6 == widen(b5, 2, Layers3D[3], raw_gold)
        \* the bounds each layer is rescaled with, the Map being as that
        \* layer's widening left it
        at(b) == [noise_min |-> b.min, noise_max |-> b.max]
        nb_terrain == norm_bounds(at(b1), Layers2D[1])
        nb_soil    == norm_bounds(at(b2), Layers2D[2])
        nb_veg     == norm_bounds(at(b3), Layers2D[3])
        nb_iron    == norm_bounds(at(b4), Layers3D[1])
        nb_copper  == norm_bounds(at(b5), Layers3D[2])
        nb_gold    == norm_bounds(at(b6), Layers3D[3])
        scaled(meta, nb, raw, i) == rescale(meta, nb.lo, nb.hi, raw.data[i])
        inputs(x, y, z) ==
            LET i2 == x + y * chunksize
                i3 == x + y * chunksize + z * chunksize * chunksize
            IN  [terrain_height |-> scaled(Layers2D[1], nb_terrain, raw_terrain, i2),
                 soil_thickness |-> scaled(Layers2D[2], nb_soil, raw_soil, i2),
                 vegetation     |-> scaled(Layers2D[3], nb_veg, raw_veg, i2),
                 iron           |-> scaled(Layers3D[1], nb_iron, raw_iron, i3),
                 copper         |-> scaled(Layers3D[2], nb_copper, raw_copper, i3),
                 gold           |-> scaled(Layers3D[3], nb_gold, raw_gold, i3),
                 z_level        |-> z_level_of(chunk_z, z)]
        cells == [z \in 0 .. chunksize - 1 |->
                    [y \in 0 .. chunksize - 1 |->
                        [x \in 0 .. chunksize - 1 |-> gen_tile(inputs(x, y, z))]]]
        count(kind) ==
            Cardinality({c \in (0 .. chunksize - 1) \X (0 .. chunksize - 1)
                                \X (0 .. chunksize - 1) :
                            cells[c[1]][c[2]][c[3]].ore_kind = kind})
        tiles_z ==
            [len |-> chunksize,
             at  |-> [z \in 0 .. chunksize - 1 |->
                [len |-> chunksize,
                 at  |-> [y \in 0 .. chunksize - 1 |->
                    [len |-> chunksize,
                     at  |-> [x \in 0 .. chunksize - 1 |->
                                SomeTile(cells[z][y][x].tile)]]]]]]
        overflow ==
            \E z \in 0 .. chunksize - 1 :
                \/ z_level_Ovf(chunk_z, z)
                \/ \E i \in 0 .. chunksize * chunksize - 1 :
                      \/ Ovf16(z_level_of(chunk_z, z)
                               - scaled(Layers2D[1], nb_terrain, raw_terrain, i))
                      \/ Ovf16(-scaled(Layers2D[2], nb_soil, raw_soil, i))
    IN  [noise_min |-> b6.min,
         noise_max |-> b6.max,
         iron      |-> count(IRON),
         copper    |-> count(COPPER),
         gold      |-> count(GOLD),
         chunk     |-> [tiles |-> tiles_z],
         overflow  |-> overflow]

\* generate_body at every argument the calls of the specifications below
\* make, evaluated once: the chunks of Positions, and the noise bounds a Map
\* can have when one of them is generated
generated_chunks ==
    {<<1, 1, 1>>, <<268435454, 0, 0>>}

generated_bounds ==
    {<<NOISE_2_OCTAVES_MIN - d, NOISE_2_OCTAVES_MAX + d>> : d \in {0, 40, 80}}

RECURSIVE generate_table_of(_)
generate_table_of(keys) ==
    IF keys = {}
    THEN <<>>
    ELSE LET k == CHOOSE k \in keys : TRUE
         IN  (k :> generate_body(k[1][1], k[1][2], k[2][1], k[2][2], k[2][3]))
                @@ generate_table_of(keys \ {k})

generate_table == generate_table_of(generated_bounds \X generated_chunks)

generate_result(noise_min, noise_max, chunk_x, chunk_y, chunk_z) ==
    generate_table[<<<<noise_min, noise_max>>, <<chunk_x, chunk_y, chunk_z>>>>]

\* the assignments of the body to the Map, g being what the body computed;
\* a panic (an overflow in a build with overflow checks) leaves the chunk
\* and the counters as they were
generate_store(overflow_checks, m1, g, chunk_x, chunk_y, chunk_z) ==
    IF overflow_checks /\ g.overflow
    THEN [map |-> [m1 EXCEPT !.noise_min = g.noise_min,
                             !.noise_max = g.noise_max],
          ran |-> TRUE, panic |-> TRUE]
    ELSE [map |-> [m1 EXCEPT
                    !.noise_min = g.noise_min,
                    !.noise_max = g.noise_max,
                    !.iron_ore_count = @ + g.iron,
                    !.copper_ore_count = @ + g.copper,
                    !.gold_ore_count = @ + g.gold,
                    !.chunks_generated =
                        grid_put(@, chunk_x, chunk_y, chunk_z, g.chunk)],
          ran |-> TRUE, panic |-> FALSE]

\* [map, ran, panic]: the Map after the call, whether the body of
\* `if !has_data` ran, whether the call panicked
generate_noise(overflow_checks, m, chunk_x, chunk_y, chunk_z) ==
    LET m1 == get_chunk_generated_mut(m, chunk_x, chunk_y, chunk_z)
    IN  IF has_data_of(grid_chunk(m1.chunks_generated, chunk_x, chunk_y, chunk_z))
        THEN [map |-> m1, ran |-> FALSE, panic |-> FALSE]
        ELSE generate_store(overflow_checks, m1,
                            generate_result(m1.noise_min, m1.noise_max,
                                            chunk_x, chunk_y, chunk_z),
                            chunk_x, chunk_y, chunk_z)

--------------------------------------------------------------------------
(* map.rs:167-193 and 358-364: get and set *)

\* map.rs:184-192: the tile of the generated grid, g being what
\* generate_noise returned; `.unwrap()` panics on None
get_generated(g, chunk_x, chunk_y, chunk_z, x, y, z) ==
    LET gt == Chunk_get(grid_chunk(g.map.chunks_generated,
                                   chunk_x, chunk_y, chunk_z), x, y, z)
    IN  IF g.panic \/ ~gt.some
        THEN [map |-> g.map, tile |-> Tile(NoImage, NoImage), ran |-> g.ran,
              panic |-> TRUE]
        ELSE [map |-> g.map, tile |-> TileOf(gt), ran |-> g.ran, panic |-> FALSE]

\* [map, tile, ran, panic]: the Map after the call, the tile returned,
\* whether a chunk's generation ran, whether the call panicked
Map_get(overflow_checks, m, x, y, z) ==
    LET cx == chunkify(x)
        cy == chunkify(y)
        cz == chunkify(z)
        ovf == chunkify_Ovf(x) \/ chunkify_Ovf(y) \/ chunkify_Ovf(z)
        mt == IF grid_has(m.chunks_modified, cx[1], cy[1], cz[1])
              THEN Chunk_get(grid_chunk(m.chunks_modified, cx[1], cy[1], cz[1]),
                             cx[2], cy[2], cz[2])
              ELSE NoTile
    IN  IF overflow_checks /\ ovf
        THEN [map |-> m, tile |-> Tile(NoImage, NoImage), ran |-> FALSE,
              panic |-> TRUE]
        ELSE IF mt.some
        THEN [map |-> m, tile |-> TileOf(mt), ran |-> FALSE, panic |-> FALSE]
        ELSE get_generated(generate_noise(overflow_checks, m, cx[1], cy[1], cz[1]),
                           cx[1], cy[1], cz[1], cx[2], cy[2], cz[2])

\* [map, panic]
Map_set(overflow_checks, m, x, y, z, tile) ==
    LET cx == chunkify(x)
        cy == chunkify(y)
        cz == chunkify(z)
        ovf == chunkify_Ovf(x) \/ chunkify_Ovf(y) \/ chunkify_Ovf(z)
        m1 == get_chunk_modified_mut(m, cx[1], cy[1], cz[1])
        chunk == Chunk_set(grid_chunk(m1.chunks_modified, cx[1], cy[1], cz[1]),
                           cx[2], cy[2], cz[2], tile)
    IN  IF overflow_checks /\ ovf
        THEN [map |-> m, panic |-> TRUE]
        ELSE [map |-> [m1 EXCEPT !.chunks_modified =
                            grid_put(@, cx[1], cy[1], cz[1], chunk)],
              panic |-> FALSE]

\* MultiImage::new(image_ids_xy): min_x, min_y, max_x and max_y all start
\* at 0 and are folded over the parts
MultiImage_new(image_ids_xy) ==
    LET xs == {0} \cup {image_ids_xy[k][1] : k \in DOMAIN image_ids_xy}
        ys == {0} \cup {image_ids_xy[k][2] : k \in DOMAIN image_ids_xy}
    IN  [image_ids |-> [k \in DOMAIN image_ids_xy |->
                           from_grid(image_ids_xy[k][1], image_ids_xy[k][2])],
         min_x  |-> SetMin(xs),
         min_y  |-> SetMin(ys),
         size_x |-> SetMax(xs) - SetMin(xs) + 1,
         size_y |-> SetMax(ys) - SetMin(ys) + 1]

\* [map, panic, sets]: sets lists the Map::set calls made, in order, as
\* <<x, y, z, tile>>
set_multi_fg(overflow_checks, m, x, y, z, multi_image) ==
    LET dx == multi_image.size_x \div 2
        dy == multi_image.size_y \div 2
        at(a, d, image_a, min_a) == Sub32(Add32(Sub32(a, d), image_a), min_a)
        at_Ovf(a, d, image_a, min_a) ==
            \/ Sub32Ovf(a, d)
            \/ Add32Ovf(Sub32(a, d), image_a)
            \/ Sub32Ovf(Add32(Sub32(a, d), image_a), min_a)
        RECURSIVE loop(_, _)
        loop(r, k) ==
            IF k > Len(multi_image.image_ids) \/ r.panic THEN r
            ELSE LET image_id == multi_image.image_ids[k]
                     image_x == image_id % IMAGES_X
                     image_y == image_id \div IMAGES_X
                     sx == at(x, dx, image_x, multi_image.min_x)
                     sy == at(y, dy, image_y, multi_image.min_y)
                     tile == Tile(GRASS, image_id)
                     s == Map_set(overflow_checks, r.map, sx, sy, z, tile)
                 IN  IF overflow_checks
                        /\ (at_Ovf(x, dx, image_x, multi_image.min_x)
                            \/ at_Ovf(y, dy, image_y, multi_image.min_y))
                     THEN [r EXCEPT !.panic = TRUE]
                     ELSE loop([map |-> s.map, panic |-> s.panic,
                                sets |-> IF s.panic THEN r.sets
                                         ELSE Append(r.sets, <<sx, sy, z, tile>>)],
                               k + 1)
    IN  loop([map |-> m, panic |-> FALSE, sets |-> <<>>], 1)

--------------------------------------------------------------------------
(* rzdb (an external crate): typed cells, rows, one table *)

DInt(n)  == [k |-> "Int", i |-> n, s |-> ""]
DStr(st) == [k |-> "String", i |-> 0, s |-> st]
DEmpty   == [k |-> "Empty", i |-> 0, s |-> ""]

\* Db without the table / Db::create
NoTable == [exists |-> FALSE, columns |-> <<>>, rows |-> <<>>]

\* row.select_at(i): Err for an index beyond the row
select_at_fails(row, i) == i + 1 > Len(row)
select_at(row, i) == row[i + 1]

\* the elements of a finite set of integers, in ascending order
RECURSIVE Ascending(_)
Ascending(S) ==
    IF S = {} THEN <<>>
    ELSE <<SetMin(S)>> \o Ascending(S \ {SetMin(S)})

\* the concatenation of a sequence of sequences
RECURSIVE Concat(_)
Concat(ss) == IF ss = <<>> THEN <<>> ELSE Head(ss) \o Concat(Tail(ss))

--------------------------------------------------------------------------
(* chunk.rs:45-88: Chunk::store; the rows it inserts, in order *)

\* chunk.rs:56: the line (z, y) holds a tile
MutLineAlwaysStored(c, y, z) == TRUE

line_is_stored(c, y, z) ==
    \E x \in 0 .. chunksize - 1 : Chunk_get(c, x, y, z).some

\* chunk.rs:66-77: one channel of a recorded tile
MutImageCellZero(image_id) ==
    DInt(IF image_id # NoImage THEN image_id ELSE 0)

image_cell(image_id) ==
    IF image_id # NoImage THEN DInt(image_id) ELSE DStr("-")

\* a row whose header has y before z
MutStoreRowYZ(c, chunk_x, chunk_y, chunk_z, y, z) ==
    <<DInt(chunk_x), DInt(chunk_y), DInt(chunk_z), DInt(y), DInt(z)>>
    \o [j \in 1 .. 2 * chunksize |->
            LET t == Chunk_get(c, (j - 1) \div 2, y, z)
            IN  IF t.some
                THEN IF j % 2 = 1 THEN image_cell(t.bg) ELSE image_cell(t.fg)
                ELSE DEmpty]

\* chunk.rs:57-82
store_row(c, chunk_x, chunk_y, chunk_z, y, z) ==
    <<DInt(chunk_x), DInt(chunk_y), DInt(chunk_z), DInt(z), DInt(y)>>
    \o [j \in 1 .. 2 * chunksize |->
            LET t == Chunk_get(c, (j - 1) \div 2, y, z)
            IN  IF t.some
                THEN IF j % 2 = 1 THEN image_cell(t.bg) ELSE image_cell(t.fg)
                ELSE DEmpty]

Chunk_store(c, chunk_x, chunk_y, chunk_z) ==
    LET lines == [k \in 1 .. chunksize * chunksize |->
                    [z |-> (k - 1) \div chunksize, y |-> (k - 1) % chunksize]]
        kept  == SelectSeq(lines, LAMBDA l : line_is_stored(c, l.y, l.z))
    IN  [k \in 1 .. Len(kept) |->
            store_row(c, chunk_x, chunk_y, chunk_z, kept[k].y, kept[k].z)]

--------------------------------------------------------------------------
(* chunk.rs:91-147: Chunk::parse_row *)
(* [chunk, err, panic]: the chunk after the call, the error returned ("" *)
(* for Ok), whether the call panicked                                    *)

\* chunk.rs:98-110: entry_to_image_id panics on anything but an integer
\* and the string "-"
entry_panics(entry) == entry.k = "Empty" \/ (entry.k = "String" /\ entry.s # "-")

entry_to_image_id(entry) ==
    IF entry.k = "Int" THEN AsU16(entry.i) ELSE NoImage

\* chunk.rs:114-139: the loop over x, from x on
RECURSIVE parse_cells(_, _, _, _, _)
parse_cells(c, row, y, z, x) ==
    IF x >= chunksize
    THEN [chunk |-> c, err |-> "", panic |-> FALSE]
    ELSE IF select_at_fails(row, 5 + 2 * x) \/ select_at_fails(row, 5 + 2 * x + 1)
    THEN [chunk |-> c, err |-> "select_at", panic |-> FALSE]
    ELSE LET bg == select_at(row, 5 + 2 * x)
             fg == select_at(row, 5 + 2 * x + 1)
         IN  IF bg.k = "Empty" /\ fg.k = "Empty"
             THEN parse_cells(c, row, y, z, x + 1)
             ELSE IF fg.k = "Empty"
             THEN IF entry_panics(bg)
                  THEN [chunk |-> c, err |-> "", panic |-> TRUE]
                  ELSE parse_cells(
                         Chunk_set(c, x, y, z, Tile(entry_to_image_id(bg), NoImage)),
                         row, y, z, x + 1)
             ELSE IF bg.k = "Empty"
             THEN [chunk |-> c, err |-> "", panic |-> TRUE]
             ELSE IF entry_panics(bg) \/ entry_panics(fg)
                  THEN [chunk |-> c, err |-> "", panic |-> TRUE]
                  ELSE parse_cells(
                         Chunk_set(c, x, y, z,
                                   Tile(entry_to_image_id(bg), entry_to_image_id(fg))),
                         row, y, z, x + 1)

Chunk_parse_row(c, row) ==
    IF select_at_fails(row, 3)
    THEN [chunk |-> c, err |-> "select_at", panic |-> FALSE]
    ELSE IF select_at(row, 3).k # "Int"
    THEN [chunk |-> c, err |-> "invalid chunk data", panic |-> FALSE]
    ELSE IF select_at_fails(row, 4)
    THEN [chunk |-> c, err |-> "select_at", panic |-> FALSE]
    ELSE IF select_at(row, 4).k # "Int"
    THEN [chunk |-> c, err |-> "invalid chunk data", panic |-> FALSE]
    ELSE LET z == AsUsize(select_at(row, 3).i)
             y == AsUsize(select_at(row, 4).i)
         IN  IF Chunk_expand_fails(chunksize - 1, y, z)
             THEN [chunk |-> c, err |-> "", panic |-> TRUE]
             ELSE parse_cells(Chunk_expand(c, chunksize - 1, y, z), row, y, z, 0)

--------------------------------------------------------------------------
(* map.rs:421-473: Map::store and Map::parse_table *)

\* the column names of a table whose rows hold 32 (bg, fg) pairs
MutColumns32 ==
    <<"chunk_x", "chunk_y", "chunk_z", "z", "y">>
    \o [j \in 1 .. 2 * 32 |->
            (IF j % 2 = 1 THEN "bg" ELSE "fg") \o ToString((j - 1) \div 2)]

\* map.rs:423-431
Columns ==
    <<"chunk_x", "chunk_y", "chunk_z", "z", "y">>
    \o [j \in 1 .. 2 * chunksize |->
            (IF j % 2 = 1 THEN "bg" ELSE "fg") \o ToString((j - 1) \div 2)]

\* map.rs:433-440: the rows of all chunks, in the order of the three loops
store_rows(grid) ==
    Concat([a \in 1 .. Len(Ascending(DOMAIN grid.at)) |->
      LET z  == Ascending(DOMAIN grid.at)[a]
          gy == grid.at[z]
      IN  Concat([b \in 1 .. Len(Ascending(DOMAIN gy.at)) |->
            LET y  == Ascending(DOMAIN gy.at)[b]
                gx == gy.at[y]
            IN  Concat([d \in 1 .. Len(Ascending(DOMAIN gx.at)) |->
                  LET x == Ascending(DOMAIN gx.at)[d]
                  IN  Chunk_store(gx.at[x], u_to_i(x), u_to_i(y), u_to_i(z))])])])

\* one call on the Db
DbCall(op, name, data) == [op |-> op, name |-> name, data |-> data]

\* map.rs:422-440: the calls Map::store makes on the Db, in order
MutInsertFirst(rows) ==
    <<DbCall("create_or_replace_table", "", <<>>)>>
    \o [k \in 1 .. Len(rows) |-> DbCall("insert_data", "", rows[k])]
    \o [j \in 1 .. Len(Columns) |-> DbCall("create_column", Columns[j], <<>>)]

calls_of(rows) ==
    <<DbCall("create_or_replace_table", "", <<>>)>>
    \o [j \in 1 .. Len(Columns) |-> DbCall("create_column", Columns[j], <<>>)]
    \o [k \in 1 .. Len(rows) |-> DbCall("insert_data", "", rows[k])]

store_calls(m) == calls_of(store_rows(m.chunks_modified))

\* rzdb: the table after one call
db_call(table, call) ==
    IF call.op = "create_or_replace_table"
    THEN [exists |-> TRUE, columns |-> <<>>, rows |-> <<>>]
    ELSE IF call.op = "create_column"
    THEN [table EXCEPT !.columns = Append(@, call.name)]
    ELSE [table EXCEPT !.rows = Append(@, call.data)]

\* the table after the calls from the k-th on
RECURSIVE db_calls(_, _, _)
db_calls(table, calls, k) ==
    IF k > Len(calls) THEN table
    ELSE db_calls(db_call(table, calls[k]), calls, k + 1)

\* the table after Map::store; create_or_replace_table drops what it held
Map_store(m) == db_calls(NoTable, store_calls(m), 1)

\* map.rs:451-471: the loop over the rows, from row k on
RECURSIVE parse_rows(_, _, _, _)
parse_rows(overflow_checks, m, rows, k) ==
    IF k > Len(rows)
    THEN [map |-> m, err |-> "", panic |-> FALSE]
    ELSE LET row == rows[k]
         IN
         IF select_at_fails(row, 0)
         THEN [map |-> m, err |-> "select_at", panic |-> FALSE]
         ELSE IF select_at(row, 0).k # "Int"
         THEN [map |-> m, err |-> "chunk_x is not an int", panic |-> FALSE]
         ELSE IF select_at_fails(row, 1)
         THEN [map |-> m, err |-> "select_at", panic |-> FALSE]
         ELSE IF select_at(row, 1).k # "Int"
         THEN [map |-> m, err |-> "chunk_y is not an int", panic |-> FALSE]
         ELSE IF select_at_fails(row, 2)
         THEN [map |-> m, err |-> "select_at", panic |-> FALSE]
         ELSE IF select_at(row, 2).k # "Int"
         THEN [map |-> m, err |-> "chunk_z is not an int", panic |-> FALSE]
         ELSE
         \* `as i32` of the i64 cells: the integers of the tables modelled fit i32
         LET ovf == \/ i_to_u_Ovf(select_at(row, 0).i)
                    \/ i_to_u_Ovf(select_at(row, 1).i)
                    \/ i_to_u_Ovf(select_at(row, 2).i)
             chunk_x == i_to_u(select_at(row, 0).i)
             chunk_y == i_to_u(select_at(row, 1).i)
             chunk_z == i_to_u(select_at(row, 2).i)
             m1 == get_chunk_modified_mut(m, chunk_x, chunk_y, chunk_z)
             r  == Chunk_parse_row(
                     grid_chunk(m1.chunks_modified, chunk_x, chunk_y, chunk_z), row)
             m2 == [m1 EXCEPT !.chunks_modified =
                        grid_put(@, chunk_x, chunk_y, chunk_z, r.chunk)]
         IN  IF (overflow_checks /\ ovf) \/ grid_grow_fails(chunk_x, chunk_y, chunk_z)
             THEN [map |-> m, err |-> "", panic |-> TRUE]
             ELSE IF r.panic THEN [map |-> m2, err |-> "", panic |-> TRUE]
             ELSE IF r.err # "" THEN [map |-> m2, err |-> r.err, panic |-> FALSE]
             ELSE parse_rows(overflow_checks, m2, rows, k + 1)

\* map.rs:443-473
MutParseSkipsBadRows(overflow_checks, m, table) ==
    parse_rows(overflow_checks, m,
               SelectSeq(table.rows, LAMBDA row : \A j \in 1 .. 5 : row[j].k = "Int"),
               1)

\* map.rs:443-473; db.select_from fails when the table does not exist
Map_parse_table(overflow_checks, m, table) ==
    IF ~table.exists
    THEN [map |-> m, err |-> "select_from", panic |-> FALSE]
    ELSE parse_rows(overflow_checks, m, table.rows, 1)

--------------------------------------------------------------------------
(* Bounds of the input spaces *)

MaxCoord  == 24     \* codec inputs near zero: -MaxCoord .. MaxCoord
MaxHeight == 2      \* tile inputs: terrain_height in -MaxHeight .. MaxHeight
MaxSoil   == 2      \* tile inputs: soil_thickness in -1 .. MaxSoil
MaxLevel  == 3      \* tile inputs: z_level in -MaxLevel .. MaxLevel

\* 2^30, the first i32 whose double does not fit
TwoTo30 == (I32_MAX \div 2) + 1

\* the coordinates at which the 32-bit arithmetic of the codec overflows,
\* and their neighbours
EdgeCoords ==
    {I32_MIN + k : k \in 0 .. chunksize} \cup {I32_MAX - k : k \in 0 .. chunksize}
    \cup {TwoTo30 - 1, TwoTo30, -TwoTo30, -TwoTo30 - 1}

\* the ends of the i16 range and their neighbours, and the first z whose
\* chunk index is a multiple of 2^16
CodecInputs ==
    (-MaxCoord .. MaxCoord) \cup EdgeCoords
    \cup {-32769, -32768, 32767, 32768, 65536 * chunksize}

TileInputs ==
    [terrain_height : -MaxHeight .. MaxHeight,
     soil_thickness : -1 .. MaxSoil,
     vegetation     : {-1, 0, 24, 25, 26, 27, 28},
     iron           : {-1, 0},
     copper         : {-1, 0},
     gold           : {-1, 0},
     z_level        : (-MaxLevel .. MaxLevel) \cup {-32768, 32767}]


MaxSets     == 2    \* Map::set calls in one behaviour
MaxRestarts == 1    \* process restarts in one behaviour

\* the world coordinates the calls are made at: a point with three negative
\* coordinates, and the two ends of the x axis
Positions ==
    {<<-1, -1, -1>>, <<I32_MIN, 0, 0>>, <<I32_MAX - (chunksize - 1), 0, 0>>}

\* the tiles painted: an erased cell, a background, a foreground on grass
\* (main.rs:341-357, 372-377)
PaintTiles == {Tile(NoImage, NoImage), Tile(STONE, NoImage), Tile(GRASS, PINE_1_1)}

\* the composites of main.rs:102-106, as the (x, y) image-grid positions of
\* their parts
MultiObjects ==
    {<<<<0, 1>>, <<0, 2>>, <<0, 3>>>>, <<<<1, 2>>, <<1, 3>>>>,
     <<<<0, 4>>, <<0, 5>>>>}

\* the world coordinates composites are anchored at
MultiAnchors ==
    {<<0, 0, 0>>, <<-1, -1, -1>>, <<chunksize, 1, 2>>, <<5, -chunksize, 0>>}

MaxChunkSets == 3   \* Chunk::set and Chunk::parse_row calls in one behaviour

\* the local coordinates Chunk::set is called at: two neighbours on one
\* line, the last slot of another line, and a slot of another layer
ChunkSetAt ==
    {<<0, 0, 0>>, <<1, 0, 0>>, <<chunksize - 1, 1, 0>>, <<0, chunksize - 1, 1>>}

\* the local coordinates Chunk::get is called at: those, a slot that expand
\* filled in, a line that expand left empty, and slots beyond the arrays
\* on each axis
ChunkGetAt ==
    ChunkSetAt \cup {<<0, 1, 0>>, <<0, 0, 1>>, <<chunksize, 1, 0>>,
                     <<0, chunksize, 0>>, <<0, 0, chunksize>>}

\* the decoded chunk coordinates Chunk::store is called with
ChunkCoords == {<<0, 0, 0>>, <<-1, -2, 3>>}

MaxRows == 2        \* rows of a table that is loaded

\* rows as store writes them: a tile at world position (-1, -1, -1), and an
\* erased tile at (2147483632, 0, 0)
GoodRows ==
    {store_row(Chunk_set(Chunk_new, chunksize - 1, chunksize - 1, chunksize - 1,
                         Tile(STONE, NoImage)),
               -1, -1, -1, chunksize - 1, chunksize - 1),
     store_row(Chunk_set(Chunk_new, 0, 0, 0, Tile(NoImage, NoImage)),
               (I32_MAX - (chunksize - 1)) \div chunksize, 0, 0, 0, 0)}

\* a row with one of the header cells chunk_x, chunk_y, chunk_z, z, y not
\* an integer
BadHeaderRows ==
    {[row EXCEPT ![j] = bad] :
        row \in GoodRows, j \in 1 .. 5, bad \in {DStr("x"), DEmpty}}

\* a row with a malformed (bg, fg) pair in slot 1: a background that is a
\* string other than "-", such a foreground, an empty background with a
\* foreground
BadCellRows ==
    {[row EXCEPT ![8] = pair[1], ![9] = pair[2]] :
        row \in GoodRows,
        pair \in {<<DStr("stone"), DEmpty>>, <<DInt(STONE), DStr("tree")>>,
                  <<DEmpty, DInt(PINE_1_1)>>}}

\* a row whose z or y cell is an integer outside 0 .. chunksize - 1
RangeRows ==
    {[row EXCEPT ![j] = DInt(v)] :
        row \in GoodRows, j \in {4, 5}, v \in {-1, chunksize}}

LoadRows == GoodRows \cup BadHeaderRows \cup BadCellRows \cup RangeRows

\* the tables loaded: 1 .. MaxRows rows
LoadTables ==
    UNION {[1 .. n -> LoadRows] : n \in 1 .. MaxRows}

MaxExcess == 2      \* raw noise beyond the expected range, in steps of 40

\* one layer of one chunk: the Map's noise bounds when it is computed, the
\* (min, max) the noise crate returns for the window, and one raw value x
\* of the window
NoiseInputs ==
    {n \in [layer     : 1 .. 6,
            noise_min : {NOISE_2_OCTAVES_MIN - 40 * d : d \in 0 .. MaxExcess},
            noise_max : {NOISE_2_OCTAVES_MAX + 40 * d : d \in 0 .. MaxExcess},
            min       : {NOISE_2_OCTAVES_MIN - 40 * d : d \in -1 .. MaxExcess}
                            \cup {NOISE_5_OCTAVES_MIN - 40},
            max       : {NOISE_2_OCTAVES_MAX + 40 * d : d \in -1 .. MaxExcess}
                            \cup {NOISE_5_OCTAVES_MAX + 40},
            x         : {NOISE_2_OCTAVES_MIN - 40 * MaxExcess, NOISE_2_OCTAVES_MIN,
                         0, NOISE_2_OCTAVES_MAX, NOISE_2_OCTAVES_MAX + 40 * MaxExcess}] :
        n.min <= n.x /\ n.x <= n.max}

NoCall == [fn |-> "none", panic |-> FALSE, u |-> 0, i |-> 0]

NoRet == [op |-> "none", pos |-> <<0, 0, 0>>, tile |-> Tile(NoImage, NoImage),
          ran |-> FALSE, panic |-> FALSE]

EmptyFcn == [i \in {} |-> 0]

NoHist ==
    [edits     |-> EmptyFcn,       \* position -> the tile of the last set there, this Map
     ever      |-> {},             \* the positions ever set, in any process
     gens      |-> EmptyFcn,       \* chunk -> runs of its generation, this Map
     ret       |-> NoRet,          \* the last call, if it was a get
     nsets     |-> 0,
     nrestarts |-> 0,
     saved     |-> EmptyVec,       \* chunks_modified as the last store saw it
     saved_at  |-> {},             \* the positions set, as the last store saw them
     load      |-> "none",         \* how the last load ended: none, ok, err, panic
     calls     |-> <<>>]           \* the Db calls of the last store

--------------------------------------------------------------------------
(* SpecCodec: the coordinate codec as pure functions of an i32 *)

InitCodec ==
    /\ checked \in BOOLEAN
    /\ cin \in CodecInputs
    /\ cout = NoCall
    /\ map = Map_new
    /\ db = NoTable
    /\ map_modified = FALSE
    /\ crashed = FALSE
    /\ hist = NoHist

\* u_to_i(i_to_u(cin))
CallRoundTrip ==
    /\ cout.fn = "none"
    /\ cout' = IF checked /\ i_to_u_Ovf(cin)
               THEN [fn |-> "round_trip", panic |-> TRUE, u |-> 0, i |-> 0]
               ELSE [fn |-> "round_trip", panic |-> FALSE,
                     u |-> i_to_u(cin), i |-> u_to_i(i_to_u(cin))]
    /\ UNCHANGED <<checked, cin, map, db, map_modified, crashed, hist>>

\* chunkify(cin): u is the chunk index, i the local offset
CallChunkify ==
    /\ cout.fn = "none"
    /\ cout' = IF checked /\ chunkify_Ovf(cin)
               THEN [fn |-> "chunkify", panic |-> TRUE, u |-> 0, i |-> 0]
               ELSE [fn |-> "chunkify", panic |-> FALSE,
                     u |-> chunkify(cin)[1], i |-> chunkify(cin)[2]]
    /\ UNCHANGED <<checked, cin, map, db, map_modified, crashed, hist>>

\* the z_level of the tile at world level cin: Map::get takes the chunk and
\* the local offset from chunkify, generate_noise computes z_level from them
\* (map.rs:189, 317)
CallZLevel ==
    /\ cout.fn = "none"
    /\ cout' = IF checked /\ (chunkify_Ovf(cin)
                               \/ z_level_Ovf(chunkify(cin)[1], chunkify(cin)[2]))
               THEN [fn |-> "z_level", panic |-> TRUE, u |-> 0, i |-> 0]
               ELSE [fn |-> "z_level", panic |-> FALSE, u |-> chunkify(cin)[1],
                     i |-> z_level_of(chunkify(cin)[1], chunkify(cin)[2])]
    /\ UNCHANGED <<checked, cin, map, db, map_modified, crashed, hist>>

NextInput ==
    /\ cout.fn # "none"
    /\ cin' \in CodecInputs
    /\ cout' = NoCall
    /\ UNCHANGED <<checked, map, db, map_modified, crashed, hist>>

NextCodec == CallRoundTrip \/ CallChunkify \/ CallZLevel \/ NextInput

SpecCodec == InitCodec /\ [][NextCodec]_vars

--------------------------------------------------------------------------
(* SpecTile: the generation of one tile as a pure function of its inputs *)

InitTile ==
    /\ checked \in BOOLEAN
    /\ cin \in TileInputs
    /\ cout = NoCall
    /\ map = Map_new
    /\ db = NoTable
    /\ map_modified = FALSE
    /\ crashed = FALSE
    /\ hist = NoHist

CallGenTile ==
    /\ cout.fn = "none"
    /\ cout' = [fn |-> "gen_tile", panic |-> checked /\ gen_tile_Ovf(cin),
                ore_kind |-> gen_tile(cin).ore_kind, tile |-> gen_tile(cin).tile]
    /\ UNCHANGED <<checked, cin, map, db, map_modified, crashed, hist>>

NextTile == CallGenTile

SpecTile == InitTile /\ [][NextTile]_vars

--------------------------------------------------------------------------
(* SpecNoise: the widening of the noise bounds by one layer, and the      *)
(* rescaling of one of its raw values, as functions of their inputs       *)

InitNoise ==
    /\ checked \in BOOLEAN
    /\ cin \in NoiseInputs
    /\ cout = NoCall
    /\ map = Map_new
    /\ db = NoTable
    /\ map_modified = FALSE
    /\ crashed = FALSE
    /\ hist = NoHist

\* map.rs:223-230 / 264-271 for the layer cin.layer
CallWiden ==
    /\ cout.fn = "none"
    /\ cout' = [fn |-> "widen", panic |-> FALSE,
                b |-> widen([min |-> cin.noise_min, max |-> cin.noise_max],
                            loop_id(cin.layer), NoiseLayers[cin.layer],
                            [min |-> cin.min, max |-> cin.max])]
    /\ UNCHANGED <<checked, cin, map, db, map_modified, crashed, hist>>

\* map.rs:231-239 / 272-280 for the value cin.x of the layer cin.layer
CallRescale ==
    /\ cout.fn = "none"
    /\ cout' = [fn |-> "rescale", panic |-> FALSE,
                value |-> rescale(NoiseLayers[cin.layer],
                                  norm_bounds([noise_min |-> cin.noise_min,
                                               noise_max |-> cin.noise_max],
                                              NoiseLayers[cin.layer]).lo,
                                  norm_bounds([noise_min |-> cin.noise_min,
                                               noise_max |-> cin.noise_max],
                                              NoiseLayers[cin.layer]).hi,
                                  cin.x)]
    /\ UNCHANGED <<checked, cin, map, db, map_modified, crashed, hist>>

NextNoise == CallWiden \/ CallRescale

SpecNoise == InitNoise /\ [][NextNoise]_vars

--------------------------------------------------------------------------
(* SpecChunk: one Chunk, written by set and parse_row and read by get and *)
(* store; cin is the Chunk, hist.edits the tile last written at each      *)
(* local coordinate                                                       *)

InitChunk ==
    /\ checked \in BOOLEAN
    /\ cin = Chunk_new
    /\ cout = NoCall
    /\ map = Map_new
    /\ db = NoTable
    /\ map_modified = FALSE
    /\ crashed = FALSE
    /\ hist = NoHist

\* chunk.set(x, y, z, tile)
ChunkSet(p, t) ==
    /\ ~crashed
    /\ hist.nsets < MaxChunkSets
    /\ cin' = Chunk_set(cin, p[1], p[2], p[3], t)
    /\ cout' = NoCall
    /\ hist' = [hist EXCEPT !.edits = (p :> t) @@ @, !.nsets = @ + 1]
    /\ UNCHANGED <<checked, map, db, map_modified, crashed>>

\* chunk.parse_row(row): the tiles of the row are the last edits of their
\* slots
ChunkParseRow(row) ==
    LET r == Chunk_parse_row(cin, row)
        tiles == chunk_explicit(Chunk_parse_row(Chunk_new, row).chunk)
        at == {<<t[1], t[2], t[3]>> : t \in tiles}
    IN  /\ ~crashed
        /\ hist.nsets < MaxChunkSets
        /\ cin' = r.chunk
        /\ crashed' = r.panic
        /\ cout' = [fn |-> "chunk_parse_row", panic |-> r.panic, err |-> r.err]
        /\ hist' = [hist EXCEPT
              !.edits = [p \in at \cup DOMAIN @ |->
                            IF p \in at
                            THEN (CHOOSE t \in tiles : <<t[1], t[2], t[3]>> = p)[4]
                            ELSE @[p]],
              !.nsets = @ + 1]
        /\ UNCHANGED <<checked, map, db, map_modified>>

\* chunk.get(x, y, z)
ChunkGet(p) ==
    /\ ~crashed
    /\ cout' = [fn |-> "chunk_get", panic |-> FALSE, pos |-> p,
                tile |-> Chunk_get(cin, p[1], p[2], p[3])]
    /\ UNCHANGED <<checked, cin, map, db, map_modified, crashed, hist>>

\* chunk.store(db, table, chunk_x, chunk_y, chunk_z): the rows it inserts
ChunkStore(c) ==
    /\ ~crashed
    /\ cout' = [fn |-> "chunk_store", panic |-> FALSE, pos |-> c,
                rows |-> Chunk_store(cin, c[1], c[2], c[3])]
    /\ UNCHANGED <<checked, cin, map, db, map_modified, crashed, hist>>

NextChunk ==
    \/ \E p \in ChunkSetAt, t \in PaintTiles : ChunkSet(p, t)
    \/ \E row \in GoodRows \cup BadCellRows : ChunkParseRow(row)
    \/ \E p \in ChunkGetAt : ChunkGet(p)
    \/ \E c \in ChunkCoords : ChunkStore(c)

SpecChunk == InitChunk /\ [][NextChunk]_vars

--------------------------------------------------------------------------
(* SpecMulti: one Map on which composites are painted; cout is the last   *)
(* call: its anchor, its parts and the Map::set calls it made             *)

InitMulti ==
    /\ checked \in BOOLEAN
    /\ cin = 0
    /\ cout = NoCall
    /\ map = Map_new
    /\ db = NoTable
    /\ map_modified = FALSE
    /\ crashed = FALSE
    /\ hist = NoHist

\* map.set_multi_fg(pos_x, pos_y, pos_z, multi_image)      (main.rs:361-363)
SetMultiFg(p, parts) ==
    LET r == set_multi_fg(checked, map, p[1], p[2], p[3], MultiImage_new(parts))
    IN  /\ ~crashed
        /\ hist.nsets < MaxSets
        /\ map' = r.map
        /\ crashed' = r.panic
        /\ map_modified' = TRUE
        /\ cout' = [fn |-> "set_multi_fg", panic |-> r.panic, pos |-> p,
                    parts |-> parts, sets |-> r.sets]
        /\ hist' = [hist EXCEPT !.nsets = @ + 1]
        /\ UNCHANGED <<checked, cin, db>>

NextMulti == \E p \in MultiAnchors, parts \in MultiObjects : SetMultiFg(p, parts)

SpecMulti == InitMulti /\ [][NextMulti]_vars

--------------------------------------------------------------------------
(* Spec: one Map in a process that paints, reads, saves and restarts *)

chunk_of(p) == <<chunkify(p[1])[1], chunkify(p[2])[1], chunkify(p[3])[1]>>

Init ==
    /\ checked \in BOOLEAN
    /\ cin = 0
    /\ cout = NoCall
    /\ map = Map_new
    /\ db = NoTable
    /\ map_modified = FALSE
    /\ crashed = FALSE
    /\ hist = NoHist

\* the effect of a get that returned r
GetReturns(p, r) ==
    /\ map' = r.map
    /\ crashed' = r.panic
    /\ hist' = [hist EXCEPT
          !.ret = [op |-> "get", pos |-> p, tile |-> r.tile,
                   ran |-> r.ran, panic |-> r.panic],
          !.gens = IF r.ran
                   THEN (chunk_of(p) :> (IF chunk_of(p) \in DOMAIN @
                                         THEN @[chunk_of(p)] + 1 ELSE 1)) @@ @
                   ELSE @]

\* map.get(x, y, z)                      (main.rs:137, 314, 431, 447, 469)
Get(p) ==
    /\ ~crashed
    /\ GetReturns(p, Map_get(checked, map, p[1], p[2], p[3]))
    /\ UNCHANGED <<checked, cin, cout, db, map_modified>>

\* map.set(x, y, z, tile); map_modified = true        (main.rs:341-383)
Set(p, t) ==
    /\ ~crashed
    /\ hist.nsets < MaxSets
    /\ LET r == Map_set(checked, map, p[1], p[2], p[3], t)
       IN  /\ map' = r.map
           /\ crashed' = r.panic
           /\ map_modified' = (map_modified \/ ~r.panic)
           /\ hist' = [hist EXCEPT
                 !.edits = IF r.panic THEN @ ELSE (p :> t) @@ @,
                 !.ever  = IF r.panic THEN @ ELSE @ \cup {p},
                 !.ret   = NoRet,
                 !.nsets = @ + 1]
    /\ UNCHANGED <<checked, cin, cout, db>>

\* map.store(&mut db, table_map); map_modified = false   (main.rs:594-608)
Store ==
    /\ ~crashed
    /\ map_modified
    /\ db' = Map_store(map)
    /\ map_modified' = FALSE
    /\ hist' = [hist EXCEPT !.ret = NoRet,
                            !.saved = map.chunks_modified,
                            !.calls = store_calls(map),
                            !.saved_at = DOMAIN hist.edits]
    /\ UNCHANGED <<checked, cin, cout, map, crashed>>

\* a new process: Map::new(), then parse_table if the Db loads; an Err of
\* parse_table is printed and the Map is used as it is      (main.rs:80-92)
Restart ==
    /\ hist.nrestarts < MaxRestarts
    /\ LET r == IF db.exists
                THEN Map_parse_table(checked, Map_new, db)
                ELSE [map |-> Map_new, err |-> "load", panic |-> FALSE]
       IN  /\ map' = r.map
           /\ crashed' = r.panic
           /\ hist' = [hist EXCEPT
                 !.edits = EmptyFcn,
                 !.gens  = EmptyFcn,
                 !.ret   = NoRet,
                 !.nrestarts = @ + 1,
                 !.load  = IF r.panic THEN "panic"
                           ELSE IF r.err = "" THEN "ok" ELSE "err"]
    /\ map_modified' = FALSE
    /\ UNCHANGED <<checked, cin, cout, db>>

Next ==
    \/ \E p \in Positions : Get(p)
    \/ \E p \in Positions, t \in PaintTiles : Set(p, t)
    \/ Store
    \/ Restart

Spec == Init /\ [][Next]_vars

--------------------------------------------------------------------------
(* SpecLoad: a process that starts with a table on disk, well-formed or   *)
(* not, loads it and reads the world                                      *)

InitLoad ==
    /\ checked \in BOOLEAN
    /\ cin = 0
    /\ cout = NoCall
    /\ map = Map_new
    /\ db \in {[exists |-> TRUE, columns |-> Columns, rows |-> rows] :
                    rows \in LoadTables}
    /\ map_modified = FALSE
    /\ crashed = FALSE
    /\ hist = NoHist

NextLoad ==
    \/ Restart
    \/ \E p \in Positions : Get(p)

SpecLoad == InitLoad /\ [][NextLoad]_vars

--------------------------------------------------------------------------
(* What a Map holds, for stating the properties *)

\* map.rs:171-183: the tile the modified grid holds at world position p
modified_at(m, p) ==
    IF grid_has(m.chunks_modified, chunkify(p[1])[1], chunkify(p[2])[1],
                chunkify(p[3])[1])
    THEN Chunk_get(grid_chunk(m.chunks_modified, chunkify(p[1])[1],
                              chunkify(p[2])[1], chunkify(p[3])[1]),
                   chunkify(p[1])[2], chunkify(p[2])[2], chunkify(p[3])[2])
    ELSE NoTile

\* the explicit tiles of a grid: <<chunk_x, chunk_y, chunk_z, <<x, y, z, tile>>>>
grid_explicit(grid) ==
    UNION {UNION {UNION {{<<x, y, z, t>> : t \in chunk_explicit(grid.at[z].at[y].at[x])} :
                         x \in DOMAIN grid.at[z].at[y].at} :
                  y \in DOMAIN grid.at[z].at} :
           z \in DOMAIN grid.at}

\* the chunk of the generated grid that holds world position p
generated_chunk_at(m, p) ==
    grid_chunk(m.chunks_generated, chunk_of(p)[1], chunk_of(p)[2], chunk_of(p)[3])

\* what get returns at each position on a fresh Map, in a build without
\* overflow checks
fresh_get == [p \in Positions |-> Map_get(FALSE, Map_new, p[1], p[2], p[3]).tile]

--------------------------------------------------------------------------
(* The coordinate codec *)

\* C5: for every i32 i, u_to_i(i_to_u(i)) returns i (which makes i_to_u
\* injective).  Fails at i = 2^30: idx * 2 overflows.
C5_RoundTrip ==
    cout.fn = "round_trip" => (~cout.panic /\ cout.i = cin)

\* C6: for every i32 i, chunkify(i) = (c, r) with 0 <= r < chunksize and
\* u_to_i(c) * chunksize + r = i.  Fails at i = -2^31: i - chunksize + 1
\* overflows.
C6_FloorDecomposition ==
    cout.fn = "chunkify" =>
        /\ ~cout.panic
        /\ cout.i \in 0 .. chunksize - 1
        /\ u_to_i(cout.u) * chunksize + cout.i = cin

--------------------------------------------------------------------------
(* The generation of one tile *)

\* C7, as the code has it: the rock kind is chosen with precedence iron over
\* gold over copper over stone, an ore being present when its value is
\* negative.
C7_OrePrecedence ==
    (cout.fn = "gen_tile" /\ ~cout.panic) =>
        cout.ore_kind = IF cin.iron < 0 THEN IRON
                        ELSE IF cin.gold < 0 THEN GOLD
                        ELSE IF cin.copper < 0 THEN COPPER
                        ELSE STONE

\* C7 as stated: precedence gold over copper over iron over stone
C7_GoldFirst ==
    (cout.fn = "gen_tile" /\ ~cout.panic) =>
        cout.ore_kind = IF cin.gold < 0 THEN GOLD
                        ELSE IF cin.copper < 0 THEN COPPER
                        ELSE IF cin.iron < 0 THEN IRON
                        ELSE STONE

\* all three ores present, and the kind is iron
C7_Witness ==
    /\ cout.fn = "gen_tile" /\ ~cout.panic
    /\ cin.iron < 0 /\ cin.copper < 0 /\ cin.gold < 0
    /\ cout.ore_kind = IRON

\* C8: the background of a generated tile, with distance = z_level -
\* terrain_height, is water or none above the surface, grass or dirt at the
\* surface, dirt within soil_thickness below it and the rock kind deeper
\* down (the cases taken in this order).  Fails at z_level = 32767 with a
\* negative terrain_height: the i16 subtraction overflows.
C8_Background ==
    cout.fn = "gen_tile" =>
        /\ ~cout.panic
        /\ cout.tile.bg =
              IF cin.z_level - cin.terrain_height > 0
              THEN (IF cin.terrain_height <= 0 /\ cin.z_level <= 0
                    THEN WATER ELSE NoImage)
              ELSE IF cin.z_level - cin.terrain_height = 0
              THEN (IF cin.terrain_height >= 0 THEN GRASS ELSE DIRT)
              ELSE IF cin.z_level - cin.terrain_height >= -cin.soil_thickness
              THEN DIRT
              ELSE cout.ore_kind

\* C9: a generated tile has a foreground only if its background is grass;
\* on grass the foreground is pine for a vegetation of 0..24, oak for 25,
\* red oak for 26, small oak for 27, and none for any other value.
C9_Foreground ==
    (cout.fn = "gen_tile" /\ ~cout.panic) =>
        cout.tile.fg = IF cout.tile.bg # GRASS THEN NoImage
                       ELSE IF cin.vegetation \in 0 .. 24 THEN PINE_1_1
                       ELSE IF cin.vegetation = 25 THEN OAK_1_1
                       ELSE IF cin.vegetation = 26 THEN OAK_1_1_RED
                       ELSE IF cin.vegetation = 27 THEN OAK_1_1_SMALL
                       ELSE NoImage

\* a grass tile at the upper end of the pine range
C9_Witness ==
    /\ cout.fn = "gen_tile" /\ ~cout.panic
    /\ cout.tile.bg = GRASS
    /\ cin.vegetation = 24
    /\ cout.tile.fg = PINE_1_1

--------------------------------------------------------------------------
(* The Map *)

\* C1: a get at a position that a set of this Map was made at returns the
\* tile of the last such set.  Fails in a build without overflow checks
\* after set(2147483632, 0, 0, a) and set(-2147483648, 0, 0, b): chunkify
\* (C6) sends both positions to the same cell.
C1_EditWins ==
    (hist.ret.op = "get" /\ hist.ret.pos \in DOMAIN hist.edits) =>
        (~hist.ret.panic /\ hist.ret.tile = hist.edits[hist.ret.pos])

\* C2: on one Map the body of generate_noise runs at most once for a chunk;
\* a get in a chunk that is cached does not run it; and a cached chunk stays
\* cached, with the tiles it has, until the process restarts.
C2_GeneratedOnce ==
    [][/\ \A c \in DOMAIN hist'.gens : hist'.gens[c] <= 1
       /\ \A p \in Positions :
             (/\ hist'.nrestarts = hist.nrestarts
              /\ Chunk_has_data(generated_chunk_at(map, p)))
             => /\ generated_chunk_at(map', p) = generated_chunk_at(map, p)
                /\ (hist'.ret.op = "get" /\ hist'.ret.pos = p) => ~hist'.ret.ran]_vars

\* a get that read a tile of a chunk generated by an earlier get
C2_Witness ==
    /\ hist.ret.op = "get" /\ ~hist.ret.panic /\ ~hist.ret.ran
    /\ ~modified_at(map, hist.ret.pos).some
    /\ chunk_of(hist.ret.pos) \in DOMAIN hist.gens
    /\ hist.gens[chunk_of(hist.ret.pos)] = 1

\* C3: a get at a position no set was ever made at returns the tile a fresh
\* Map returns there, whatever was read or set elsewhere before.  Fails in a
\* build without overflow checks after set(-2147483648, 0, 0, t): a get at
\* 2147483632, 0, 0 returns t (C6).
C3_Deterministic ==
    (hist.ret.op = "get" /\ ~hist.ret.panic /\ hist.ret.pos \notin hist.ever) =>
        hist.ret.tile = fresh_get[hist.ret.pos]

\* C4: a load into a fresh Map of what store wrote succeeds, and the fresh
\* Map holds the explicit tiles of the Map stored, and no other: the
\* modified grid returns the same at every position.
C4_RoundTrip ==
    (hist.nrestarts > 0 /\ db.exists /\ hist.edits = EmptyFcn) =>
        /\ hist.load = "ok"
        /\ grid_explicit(map.chunks_modified) = grid_explicit(hist.saved)
        /\ \A p \in hist.saved_at :
              modified_at(map, p) = modified_at([map EXCEPT !.chunks_modified = hist.saved], p)

\* a Map loaded from a table that holds an erased tile at a position with
\* negative coordinates and another tile elsewhere
C4_Witness ==
    /\ hist.nrestarts > 0 /\ db.exists /\ hist.edits = EmptyFcn
    /\ hist.load = "ok"
    /\ Cardinality(hist.saved_at) = 2
    /\ modified_at(map, <<-1, -1, -1>>) = SomeTile(Tile(NoImage, NoImage))
    /\ \E p \in Positions : /\ modified_at(map, p).some
                            /\ TileOf(modified_at(map, p)).bg # NoImage

\* C10: a set leaves the generated grid, the ore counters and the noise
\* bounds of the Map as they are.
C10_SetFrame ==
    [][hist'.nsets # hist.nsets =>
          /\ map'.chunks_generated = map.chunks_generated
          /\ map'.iron_ore_count = map.iron_ore_count
          /\ map'.copper_ore_count = map.copper_ore_count
          /\ map'.gold_ore_count = map.gold_ore_count
          /\ map'.noise_min = map.noise_min
          /\ map'.noise_max = map.noise_max]_vars

\* the last call was a set, made at a position whose chunk was cached
C10_Witness ==
    /\ map_modified /\ hist.ret.op = "none" /\ ~crashed
    /\ \E p \in DOMAIN hist.edits :
          /\ Chunk_has_data(generated_chunk_at(map, p))
          /\ modified_at(map, p) = SomeTile(hist.edits[p])

--------------------------------------------------------------------------
(* The Chunk *)

\* C11: after any sequence of sets, a get at a local coordinate returns
\* Some(the tile of the last set there) if a set was made there and None
\* otherwise - beyond the arrays, in a slot that expand filled in, on a line
\* that expand left empty - and does not panic.
C11_ChunkGetSet ==
    cout.fn = "chunk_get" =>
        /\ ~cout.panic
        /\ cout.tile = IF cout.pos \in DOMAIN hist.edits
                       THEN SomeTile(hist.edits[cout.pos])
                       ELSE NoTile

\* a get at a coordinate that was set twice, another coordinate being set
\* in between or after
C11_Witness ==
    /\ cout.fn = "chunk_get"
    /\ hist.nsets = 3 /\ Cardinality(DOMAIN hist.edits) = 2
    /\ cout.pos \in DOMAIN hist.edits
    /\ cout.tile = SomeTile(hist.edits[cout.pos])

\* C12: store emits one row for each line (z, y) that holds a tile, and no
\* other row; a chunk without tiles emits none.
C12_SparseRows ==
    cout.fn = "chunk_store" =>
      LET lines_set ==
            {l \in (0 .. chunksize - 1) \X (0 .. chunksize - 1) :
               \E x \in 0 .. chunksize - 1 : <<x, l[2], l[1]>> \in DOMAIN hist.edits}
      IN
        /\ Len(cout.rows) = Cardinality(lines_set)
        /\ \A l \in lines_set :
              \E k \in 1 .. Len(cout.rows) :
                  cout.rows[k][4] = DInt(l[1]) /\ cout.rows[k][5] = DInt(l[2])
        /\ \A k \in 1 .. Len(cout.rows) :
              /\ cout.rows[k][4].k = "Int" /\ cout.rows[k][5].k = "Int"
              /\ <<cout.rows[k][4].i, cout.rows[k][5].i>> \in lines_set

\* a chunk with three tiles on two lines, stored as two rows
C12_Witness ==
    /\ cout.fn = "chunk_store"
    /\ Cardinality(DOMAIN hist.edits) = 3
    /\ Len(cout.rows) = 2

\* C13: a row of store is the five header cells (the chunk coordinates it
\* was called with, z, y, all integers) and chunksize pairs; the pair of
\* slot x is (Empty, Empty) if no tile is recorded there, and otherwise has
\* for each channel the image id as an integer, or the string "-" for None.
C13_RowFormat ==
    cout.fn = "chunk_store" =>
        \A k \in 1 .. Len(cout.rows) :
            LET row == cout.rows[k]
                cell_of(image_id) ==
                    IF image_id = NoImage THEN DStr("-") ELSE DInt(image_id)
            IN  /\ Len(row) = 5 + 2 * chunksize
                /\ row[1] = DInt(cout.pos[1])
                /\ row[2] = DInt(cout.pos[2])
                /\ row[3] = DInt(cout.pos[3])
                /\ row[4].k = "Int" /\ row[5].k = "Int"
                /\ \A x \in 0 .. chunksize - 1 :
                      LET p == <<x, row[5].i, row[4].i>>
                      IN  IF p \in DOMAIN hist.edits
                          THEN /\ row[6 + 2 * x] = cell_of(hist.edits[p].bg)
                               /\ row[7 + 2 * x] = cell_of(hist.edits[p].fg)
                          ELSE /\ row[6 + 2 * x] = DEmpty
                               /\ row[7 + 2 * x] = DEmpty

\* a row with an explicitly empty tile next to a tile with both channels,
\* and slots without a tile
C13_Witness ==
    /\ cout.fn = "chunk_store"
    /\ \E k \in 1 .. Len(cout.rows) :
          /\ cout.rows[k][6] = DStr("-") /\ cout.rows[k][7] = DStr("-")
          /\ cout.rows[k][8] = DInt(GRASS) /\ cout.rows[k][9] = DInt(PINE_1_1)
          /\ cout.rows[k][10] = DEmpty /\ cout.rows[k][11] = DEmpty

--------------------------------------------------------------------------
(* The table *)

\* C14: after a store, the table has for every position (x, y, z) set on
\* the Map a row whose first five cells are the integers floor(x /
\* chunksize), floor(y / chunksize), floor(z / chunksize), z mod chunksize,
\* y mod chunksize; and a load of the table puts the tiles of that row in
\* the chunk they were stored from.  Fails in a build without overflow
\* checks after set(-2147483648, 0, 0, t): the row has 134217727 for
\* chunk_x (C6).
C14_SignedChunkCoords ==
    db.exists =>
        \A p \in hist.saved_at :
            /\ \E k \in 1 .. Len(db.rows) :
                  /\ db.rows[k][1] = DInt(p[1] \div chunksize)
                  /\ db.rows[k][2] = DInt(p[2] \div chunksize)
                  /\ db.rows[k][3] = DInt(p[3] \div chunksize)
                  /\ db.rows[k][4] = DInt(p[3] % chunksize)
                  /\ db.rows[k][5] = DInt(p[2] % chunksize)
            /\ (hist.load = "ok" /\ hist.edits = EmptyFcn) =>
                  chunk_explicit(grid_chunk(map.chunks_modified, chunk_of(p)[1],
                                            chunk_of(p)[2], chunk_of(p)[3]))
                    = chunk_explicit(grid_chunk(hist.saved, chunk_of(p)[1],
                                                chunk_of(p)[2], chunk_of(p)[3]))

\* C15: the calls of a store on the Db are one create_or_replace_table,
\* then the create_column calls of the five header columns and of bg and fg
\* for every x, then the insert_data calls, one for every line (chunk, z, y)
\* of the modified grid that holds a tile; the generated grid adds none.
C15_StoreCalls ==
    hist.calls # <<>> =>
        LET n == 5 + 2 * chunksize
            populated ==
                {<<e[1], e[2], e[3], e[4][3], e[4][2]>> : e \in grid_explicit(hist.saved)}
        IN  /\ Len(hist.calls) = 1 + n + Cardinality(populated)
            /\ hist.calls[1].op = "create_or_replace_table"
            /\ \A j \in 1 .. 5 :
                  hist.calls[1 + j] =
                      DbCall("create_column",
                             <<"chunk_x", "chunk_y", "chunk_z", "z", "y">>[j], <<>>)
            /\ \A x \in 0 .. chunksize - 1 :
                  /\ hist.calls[7 + 2 * x] =
                        DbCall("create_column", "bg" \o ToString(x), <<>>)
                  /\ hist.calls[8 + 2 * x] =
                        DbCall("create_column", "fg" \o ToString(x), <<>>)
            /\ \A k \in n + 2 .. Len(hist.calls) : hist.calls[k].op = "insert_data"

\* a store of a Map with tiles on two lines and a generated chunk cached
C15_Witness ==
    /\ hist.calls # <<>> /\ ~map_modified /\ ~crashed /\ hist.ret.op = "none"
    /\ Len(hist.calls) = 1 + 5 + 2 * chunksize + 2
    /\ \E p \in Positions : Chunk_has_data(generated_chunk_at(map, p))

--------------------------------------------------------------------------
(* The load of a malformed table *)

\* C16: if the first row of the table that is not as store writes it has a
\* header cell (chunk_x, chunk_y, chunk_z, z or y) that is not an integer,
\* parse_table returns an error, and the Map holds the tiles of the rows
\* before that row and no other.
C16_HeaderError ==
    (hist.nrestarts > 0 /\ db.exists) =>
        \A k \in 1 .. Len(db.rows) :
            (/\ \E j \in 1 .. 5 : db.rows[k][j].k # "Int"
             /\ \A i \in 1 .. k - 1 : db.rows[i] \in GoodRows)
            => /\ hist.load = "err"
               /\ grid_explicit(map.chunks_modified) =
                    grid_explicit(
                      Map_parse_table(checked, Map_new,
                          [db EXCEPT !.rows = SubSeq(db.rows, 1, k - 1)])
                        .map.chunks_modified)

\* a load that failed at the second row, the first having written its tile
C16_Witness ==
    /\ hist.nrestarts > 0 /\ hist.load = "err"
    /\ Len(db.rows) = 2
    /\ db.rows[1] \in GoodRows /\ db.rows[2] \in BadHeaderRows
    /\ Cardinality(grid_explicit(map.chunks_modified)) = 1

\* C17: after a load that returned an error, a get returns the generated
\* tile at every position: the Map holds no tile of the table.  Fails for
\* a table whose first row is well-formed and whose second is not: main
\* prints the error and goes on with the Map as parse_table left it.
C17_AllOrNothing ==
    (hist.load = "err" /\ hist.ret.op = "get" /\ ~hist.ret.panic) =>
        hist.ret.tile = fresh_get[hist.ret.pos]

\* C18: if the first row of the table that is not as store writes it has
\* integer header cells and a malformed (bg, fg) pair, parse_table returns
\* an error.  Fails: entry_to_image_id panics, and so does the match on an
\* empty background with a foreground.
C18_CellError ==
    (hist.nrestarts > 0 /\ db.exists) =>
        \A k \in 1 .. Len(db.rows) :
            (/\ db.rows[k] \in BadCellRows
             /\ \A i \in 1 .. k - 1 : db.rows[i] \in GoodRows)
            => hist.load = "err"

--------------------------------------------------------------------------
(* The noise bounds *)

\* C19: the terrain-height layer leaves the noise bounds as they are; for
\* every other layer a raw minimum below the known minimum becomes the
\* minimum, a raw maximum above the known maximum becomes the maximum, and
\* a bound is not changed otherwise.  Fails for the iron layer: it is the
\* first of its loop, and `id > 0` keeps it from widening.
C19_WideningLayers ==
    cout.fn = "widen" =>
        IF cin.layer = 1
        THEN cout.b = [min |-> cin.noise_min, max |-> cin.noise_max]
        ELSE cout.b = [min |-> IF cin.min < cin.noise_min
                               THEN cin.min ELSE cin.noise_min,
                       max |-> IF cin.max > cin.noise_max
                               THEN cin.max ELSE cin.noise_max]

\* C20: a raw value of a layer that widens is rescaled with the noise
\* bounds as they stand when the chunk is generated (the terrain-height
\* layer with its fixed bounds).  Fails once a bound was widened: the code
\* rescales with the constants of the layer.
C20_ObservedBounds ==
    cout.fn = "rescale" =>
        cout.value =
            IF cin.layer = 1
            THEN rescale(NoiseLayers[1], NoiseLayers[1].noise_min,
                         NoiseLayers[1].noise_max, cin.x)
            ELSE rescale(NoiseLayers[cin.layer], cin.noise_min, cin.noise_max, cin.x)

--------------------------------------------------------------------------
(* C21: Map::set_multi_fg(x, y, z, m) performs exactly one Map::set per    *)
(* part of the composite m, all at level z, at cells that reproduce the    *)
(* relative layout of the parts with the bounding box of the parts         *)
(* centred on (x, y): on each axis the smallest written coordinate is the  *)
(* anchor minus floor(extent / 2), the extent being that of the bounding   *)
(* box of the parts; the anchor cell lies inside the written bounding box. *)
C21_CentredLayout ==
    cout.fn = "set_multi_fg" =>
        LET parts == cout.parts
            xs == {parts[k][1] : k \in DOMAIN parts}
            ys == {parts[k][2] : k \in DOMAIN parts}
            lo_x == cout.pos[1] - ((SetMax(xs) - SetMin(xs) + 1) \div 2)
            lo_y == cout.pos[2] - ((SetMax(ys) - SetMin(ys) + 1) \div 2)
            wx == {cout.sets[k][1] : k \in DOMAIN cout.sets}
            wy == {cout.sets[k][2] : k \in DOMAIN cout.sets}
        IN  /\ ~cout.panic
            /\ Len(cout.sets) = Len(parts)
            /\ \A k \in DOMAIN parts :
                  /\ cout.sets[k][1] = lo_x + (parts[k][1] - SetMin(xs))
                  /\ cout.sets[k][2] = lo_y + (parts[k][2] - SetMin(ys))
                  /\ cout.sets[k][3] = cout.pos[3]
                  /\ cout.sets[k][4] = Tile(GRASS, from_grid(parts[k][1], parts[k][2]))
                  /\ modified_at(map, <<cout.sets[k][1], cout.sets[k][2],
                                        cout.sets[k][3]>>).some
            /\ SetMin(wx) <= cout.pos[1] /\ cout.pos[1] <= SetMax(wx)
            /\ SetMin(wy) <= cout.pos[2] /\ cout.pos[2] <= SetMax(wy)

--------------------------------------------------------------------------
(* C22 (as amended): chunksize is the fixed constant 16, and that one      *)
(* constant is used by every chunk, by chunkify, by the generation window  *)
(* and by the persisted row width: local offsets are in 0 .. 15, a         *)
(* generated chunk holds 16 x 16 x 16 tiles, the table has 5 + 2 * 16      *)
(* columns and every row 16 (bg, fg) pairs.                                *)
C22_Chunksize16 ==
    /\ chunksize = 16
    /\ \A p \in DOMAIN hist.edits : \A i \in 1 .. 3 :
          chunkify(p[i])[2] \in 0 .. 16 - 1
    /\ hist.ret.op = "get" /\ hist.ret.ran /\ ~hist.ret.panic =>
          LET c == generated_chunk_at(map, hist.ret.pos)
          IN  /\ c.tiles.len = 16
              /\ \A z \in 0 .. 16 - 1 :
                    /\ c.tiles.at[z].len = 16
                    /\ \A y \in 0 .. 16 - 1 : c.tiles.at[z].at[y].len = 16
              /\ Cardinality(chunk_explicit(c)) = 16 * 16 * 16
    /\ db.exists =>
          /\ Len(db.columns) = 5 + 2 * 16
          /\ \A k \in DOMAIN db.rows : Len(db.rows[k]) = 5 + 2 * 16

\* a chunk has been generated by the last call, and the table holds a row
C22_Witness ==
    /\ hist.ret.op = "get" /\ hist.ret.ran /\ ~hist.ret.panic
    /\ db.exists /\ Len(db.rows) > 0
    /\ DOMAIN hist.edits # {}

\* C22 as stated: the constant is 32
C22_Chunksize32 ==
    /\ chunksize = 32
    /\ \A p \in DOMAIN hist.edits : \A i \in 1 .. 3 :
          chunkify(p[i])[2] \in 0 .. 32 - 1
    /\ hist.ret.op = "get" /\ hist.ret.ran /\ ~hist.ret.panic =>
          LET c == generated_chunk_at(map, hist.ret.pos)
          IN  /\ c.tiles.len = 32
              /\ Cardinality(chunk_explicit(c)) = 32 * 32 * 32
    /\ db.exists =>
          /\ Len(db.columns) = 5 + 2 * 32
          /\ \A k \in DOMAIN db.rows : Len(db.rows[k]) = 5 + 2 * 32

--------------------------------------------------------------------------
(* C23: generating one chunk increases each of the iron, copper and gold   *)
(* counters by exactly the number of tiles of that chunk whose background  *)
(* resolved to that ore kind; air, water, grass, dirt and plain stone      *)
(* tiles increment no counter.  The counters start at 0 with the Map and   *)
(* change in generation only, so each counter equals the number of tiles   *)
(* of the generated grid with that background.                             *)
C23_OreCounters ==
    ~crashed =>
        LET tiles == grid_explicit(map.chunks_generated)
            with_bg(kind) == Cardinality({e \in tiles : e[4][4].bg = kind})
        IN  /\ map.iron_ore_count = with_bg(IRON)
            /\ map.copper_ore_count = with_bg(COPPER)
            /\ map.gold_ore_count = with_bg(GOLD)

--------------------------------------------------------------------------
(* C24: over any sequence of operations on a Map its noise bounds change   *)
(* only by widening: noise_min never increases, noise_max never decreases, *)
(* and they change only in a get that generates a chunk of which a layer   *)
(* has raw output outside the bounds the Map had.                          *)
C24_OnlyWidens ==
    [][hist'.nrestarts = hist.nrestarts =>
          /\ map'.noise_min <= map.noise_min
          /\ map'.noise_max >= map.noise_max
          /\ (map'.noise_min # map.noise_min \/ map'.noise_max # map.noise_max) =>
                LET c == chunk_of(hist'.ret.pos)
                    ox == u_to_i(c[1]) * chunksize
                    oy == u_to_i(c[2]) * chunksize
                    oz == u_to_i(c[3]) * chunksize
                    outside(r) == r.min < map.noise_min \/ r.max > map.noise_max
                IN  /\ hist'.ret.op = "get" /\ hist'.ret.ran
                    /\ \/ \E k \in DOMAIN Layers2D : outside(fbm_2d(Layers2D[k], ox, oy))
                       \/ \E k \in DOMAIN Layers3D :
                             outside(fbm_3d(Layers3D[k], ox, oy, oz))]_vars

\* a get has widened the bounds of its Map
C24_Witness ==
    /\ hist.ret.op = "get" /\ hist.ret.ran /\ ~hist.ret.panic
    /\ map.noise_min < NOISE_2_OCTAVES_MIN
    /\ map.noise_max > NOISE_2_OCTAVES_MAX

--------------------------------------------------------------------------
(* C25: over any sequence of Chunk::set and Chunk::parse_row calls the     *)
(* storage of a chunk only grows: the lengths of the z array, of every y   *)
(* array and of every x array never decrease, a slot that holds Some(tile) *)
(* never becomes None again, and the slots that growth skipped over read   *)
(* as None.                                                                *)
C25_OnlyGrows ==
    [][/\ cin'.tiles.len >= cin.tiles.len
       /\ \A z \in 0 .. cin.tiles.len - 1 :
             LET ty  == VAt(cin.tiles, z, EmptyVec)
                 ty1 == VAt(cin'.tiles, z, EmptyVec)
             IN  /\ ty1.len >= ty.len
                 /\ \A y \in 0 .. ty.len - 1 :
                       LET tx  == VAt(ty, y, EmptyVec)
                           tx1 == VAt(ty1, y, EmptyVec)
                       IN  /\ tx1.len >= tx.len
                           /\ \A x \in 0 .. tx.len - 1 :
                                 VAt(tx, x, NoTile).some => VAt(tx1, x, NoTile).some
       /\ \A p \in ChunkGetAt \ DOMAIN hist'.edits :
             ~Chunk_get(cin', p[1], p[2], p[3]).some]_vars

\* a row has been parsed into a chunk that set had written, growing it
C25_Witness ==
    /\ cout.fn = "chunk_parse_row" /\ ~cout.panic /\ cout.err = ""
    /\ cin.tiles.len = chunksize
    /\ \E p \in ChunkSetAt : p \in DOMAIN hist.edits /\ Chunk_get(cin, p[1], p[2], p[3]).some

--------------------------------------------------------------------------
(* C26: for every i32 world z, the z_level used when the tile at z is      *)
(* generated equals z, and distance = z_level - terrain_height is computed *)
(* without wrap-around or overflow in 16-bit arithmetic.                   *)
C26_ZLevel ==
    cout.fn = "z_level" =>
        /\ ~cout.panic
        /\ cout.i = cin
        /\ \A terrain_height \in -MaxHeight .. MaxHeight :
              /\ ~Ovf16(cout.i - terrain_height)
              /\ distance_of(cout.i, terrain_height) = cin - terrain_height

--------------------------------------------------------------------------
(* C27: in every reachable state of a Map each chunk of the generated grid *)
(* is either empty or holds exactly chunksize^3 tiles, all Some; so a get  *)
(* at a coordinate without an explicit edit always returns a tile and its  *)
(* final unwrap never panics, also when the grid was grown past chunks of  *)
(* lower index that were never asked for.                                  *)
C27_GeneratedFull ==
    /\ \A z \in DOMAIN map.chunks_generated.at :
         \A y \in DOMAIN map.chunks_generated.at[z].at :
           \A x \in DOMAIN map.chunks_generated.at[z].at[y].at :
             LET c == map.chunks_generated.at[z].at[y].at[x]
             IN  \/ ~Chunk_has_data(c)
                 \/ /\ Cardinality(chunk_explicit(c)) = chunksize * chunksize * chunksize
                    /\ \A p \in (0 .. chunksize - 1) \X (0 .. chunksize - 1)
                                   \X (0 .. chunksize - 1) :
                          Chunk_get(c, p[1], p[2], p[3]).some
    /\ (hist.ret.op = "get" /\ ~modified_at(map, hist.ret.pos).some) =>
          /\ ~hist.ret.panic
          /\ generated_chunk_at(map, hist.ret.pos) # Chunk_new

--------------------------------------------------------------------------
(* C28: in every state of a Map reached through Map::set and successful    *)
(* Map::parse_table calls, every explicit tile of the modified grid sits   *)
(* at local offsets inside 0 .. chunksize - 1 on all three axes, so every  *)
(* stored edit is visible through Map::get and written by Map::store; a    *)
(* row whose z or y cell is an integer outside that range cannot introduce *)
(* a tile outside it.                                                      *)
C28_OffsetsInRange ==
    hist.load = "ok" =>
        \A e \in grid_explicit(map.chunks_modified) :
            /\ \A i \in 1 .. 3 : e[4][i] \in 0 .. chunksize - 1
            /\ modified_at(map, <<u_to_i(e[1]) * chunksize + e[4][1],
                                  u_to_i(e[2]) * chunksize + e[4][2],
                                  u_to_i(e[3]) * chunksize + e[4][3]>>)
                 = SomeTile(e[4][4])
            /\ \E k \in DOMAIN store_rows(map.chunks_modified) :
                  LET row == store_rows(map.chunks_modified)[k]
                  IN  /\ <<row[1].i, row[2].i, row[3].i>>
                            = <<u_to_i(e[1]), u_to_i(e[2]), u_to_i(e[3])>>
                      /\ row[4].i = e[4][3]
                      /\ row[5].i = e[4][2]

==========================================================================
